---------------------------- MODULE Spec2Model ----------------------------
(***************************************************************************)
(* Model of the neighbour-search subsystem of non-bonded-periodic          *)
(* (src/nbp/neighbours.py, class Neighbours) together with the parts of    *)
(* src/nbp/sysmodule.py it reads (System, SystemInfo, SystemState).        *)
(*                                                                         *)
(* Numbers.  Positions, sigma and lengths are integers.  The subcell       *)
(* length, the float box_length / subcells_inrow, is kept as the pair      *)
(* [num, den] it is the rounded quotient of; every                         *)
(* floor(... / subcell_length) of the source is computed with the rounding *)
(* of double-precision division (FloorOfQuotient).  A comparison of an     *)
(* integer with subcell_length or 2 * subcell_length is a comparison of    *)
(* cross products: the float has the exact quotient's order with respect   *)
(* to every integer.  A Euclidean norm d is represented by its             *)
(* square d^2 (an integer): the source only compares norms with            *)
(* non-negative bounds and stores them, and squaring is strictly monotone  *)
(* on non-negative numbers, so `0 < d <= cutoff' is `0 < d^2 <= cutoff^2'  *)
(* and a stored distance 3.0 is the stored value 9.                        *)
(* Python lists and arrays are functions on 0..n-1; the list of system     *)
(* states is a sequence (states()[k] is states[k + 1]).                    *)
(***************************************************************************)
EXTENDS Integers, Sequences, FiniteSets, TLC

\* Number of particles of the system (rows of the positions array).
NumParticles == 2
\* update_state is called while System._systemStates holds fewer states.
MaxStates == 2

(***************************************************************************)
(* Inputs: constructor arguments and particle positions.                   *)
(***************************************************************************)
\* (characteristic_length, sigma, worse_sigma) given to the constructors.
Configs ==
    { [characteristic_length |-> 3,  sigma |-> 1, worse_sigma |-> 1],
      [characteristic_length |-> 6,  sigma |-> 1, worse_sigma |-> 1],
      [characteristic_length |-> 10, sigma |-> 1, worse_sigma |-> 1],
      [characteristic_length |-> 27, sigma |-> 3, worse_sigma |-> 4] }

\* Particle positions a caller may hand in (nothing in the source restricts
\* them to the box).
Points ==
    { <<0, 0, 0>>, <<9, 0, 0>>, <<10, 1, 0>>, <<0, 0, 18>>, <<-1, 0, 0>> }

\* Points a particle is moved to by a later state.
MovePoints == { <<0, 0, 0>>, <<9, 0, 0>> }

\* Lengths of the lists handed to update_state.
ListLengths == { 0, 1, 2 }

\* Constructor arguments whose subcell length, 51 / 9, is not a binary
\* fraction (box 51, cutoff 3, skin 6, 9 subcells per row), and positions
\* inside that box on and next to the subcell boundaries 17 = 3 * 51 / 9
\* and 34 = 6 * 51 / 9.
RoundedConfigs ==
    { [characteristic_length |-> 51, sigma |-> 1, worse_sigma |-> 2] }

RoundedPoints == { <<16, 0, 0>>, <<17, 0, 0>>, <<17, 34, 0>> }

ParticleIds == 0 .. (NumParticles - 1)
\* The particles a later state moves: the first and the last.
MovedParticles == { 0, NumParticles - 1 }
PositionArrays == [ParticleIds -> Points]
RoundedPositionArrays == [ParticleIds -> RoundedPoints]
Axes == 1 .. 3

Abs(a) == IF a < 0 THEN -a ELSE a
Sq(a) == a * a
\* ceil(a / b) for b > 0
Ceil(a, b) == -((-a) \div b)

(***************************************************************************)
(* SystemInfo.__init__                                                     *)
(***************************************************************************)
cutoff_of(sigma) == sigma * 3

char_length_of(characteristic_length, sigma) ==
    Ceil(characteristic_length, cutoff_of(sigma)) * cutoff_of(sigma)

\* `if not self._cutoff_radius <= self._char_length/2: raise ValueError'
SystemInfoRaises(characteristic_length, sigma) ==
    ~ (2 * cutoff_of(sigma) <= char_length_of(characteristic_length, sigma))

\* SystemInfo.worse_sigma(): the largest interaction-range parameter.
worse_sigma_of(c) == c.worse_sigma

\* SystemInfo.num_particles(): the number of particles of the system.
num_particles(positions) == Cardinality(DOMAIN positions)

(***************************************************************************)
(* Neighbours._create_subcells                                             *)
(***************************************************************************)
RECURSIVE create_subcells_loop(_, _, _)
create_subcells_loop(subcells, skin, box) ==
    IF skin * subcells < box
    THEN create_subcells_loop(subcells + 1, skin, box)
    ELSE subcells

\* returns the number of subcells in a row; the subcell length is
\* box / subcells, kept as the fraction [num |-> box, den |-> subcells].
create_subcells(skin, box) == create_subcells_loop(1, skin, box)

SubcellLength(box, subcells) == [num |-> box, den |-> subcells]

(***************************************************************************)
(* Double-precision arithmetic on the subcell length.                      *)
(*                                                                         *)
(* `box_length / subcells_inrow' is a Python float: the double nearest to  *)
(* num / den, that is M * 2^(a - 52) with 2^52 <= M < 2^53 and a the       *)
(* binary exponent of num / den.  M does not fit the integers of the model *)
(* and is never written out; it is determined by                           *)
(*      M * den = num * 2^(52 - a) - r,    -den/2 < r < den/2,             *)
(* and the operators below work with a, with the rounding remainder r and  *)
(* with the low bits of M, all of them small integers.  When r = 0 the     *)
(* float is num / den exactly.                                             *)
(*                                                                         *)
(* The source floors three quotients by the float: p / sl, (p - sl) / sl   *)
(* and (p + sl) / sl, p an integer coordinate.  Each operation rounds its  *)
(* result to the nearest double, ties to even.  When p is not a multiple   *)
(* of num / den the exact quotient p * den / num is at least 1 / num away  *)
(* from every integer and the roundings, of relative size 2^-53, cannot    *)
(* move the floor.  When p = k * num / den, the computed quotient is       *)
(*      K + T / (num * 2^(52 - a) - r),                                    *)
(* K = k, k - 1 or k + 1 the exact result, T = k * r + d * den and d the   *)
(* rounding error of the sum p -/+ sl in units of 2^(a - 52); the floor is *)
(* K - 1 when this value lies below K and rounds to a double below K.      *)
(***************************************************************************)
\* the binary exponent of n / d (n, d > 0): the a with 2^a <= n / d < 2^(a+1)
RECURSIVE BinaryExponentUp(_, _, _)
BinaryExponentUp(a, n, d) ==
    IF (2 ^ (a + 1)) * d <= n THEN BinaryExponentUp(a + 1, n, d) ELSE a

RECURSIVE BinaryExponentDown(_, _, _)
BinaryExponentDown(a, n, d) ==
    IF n * (2 ^ (-a)) < d THEN BinaryExponentDown(a - 1, n, d) ELSE a

BinaryExponent(n, d) ==
    IF n >= d THEN BinaryExponentUp(0, n, d) ELSE BinaryExponentDown(0, n, d)

\* 2^s modulo m
RECURSIVE PowMod2(_, _)
PowMod2(s, m) ==
    IF s = 0 THEN 1 % m
    ELSE LET h == PowMod2(s \div 2, m)
         IN  IF s % 2 = 0 THEN (h * h) % m ELSE (2 * ((h * h) % m)) % m

\* r of the float sl: num * 2^(52 - a) - M * den, M the mantissa rounded to
\* nearest (a tie would need den to divide num * 2^(53 - a) but not
\* num * 2^(52 - a), which no den below 2^52 does)
NearestResidue(rem, den) == IF 2 * rem > den THEN rem - den ELSE rem
RoundingRemainder(sl) ==
    IF sl.num % sl.den = 0 THEN 0
    ELSE NearestResidue(
             ((sl.num % sl.den)
                * PowMod2(52 - BinaryExponent(sl.num, sl.den), sl.den))
               % sl.den,
             sl.den)

\* the float box / m as the operators below use it: the pair it is the
\* rounded quotient of, its binary exponent a and its rounding remainder r
FloatOf(sl) ==
    [num |-> sl.num, den |-> sl.den,
     a |-> BinaryExponent(sl.num, sl.den), r |-> RoundingRemainder(sl)]

\* den and r with their common factors of two removed
RECURSIVE StripTwos(_, _)
StripTwos(m, r) ==
    IF m % 2 = 0 THEN StripTwos(m \div 2, r \div 2) ELSE <<m, r>>

\* the low bits of the mantissa: M modulo L, L a power of two
MantissaLow(f, L) ==
    LET odd == StripTwos(f.den, f.r)
    IN  CHOOSE low \in 0 .. (L - 1) : (low * odd[1] + odd[2]) % L = 0

\* the last j + 1 bits of the magnitude of the exact sum p + sign * sl in
\* units of 2^(a - 52); total is its numerator p * den + sign * num
DroppedBits(total, f, sign, j) ==
    LET L == 2 ^ (j + 1)
        signed == (sign * MantissaLow(f, L)) % L
    IN  IF total > 0 THEN signed ELSE (-signed) % L

\* what rounding away the last j bits adds to a magnitude ending in bits:
\* to nearest, ties to even
RoundToEven(bits, j) ==
    LET low == bits % (2 ^ j)
        half == 2 ^ (j - 1)
    IN  IF low < half THEN -low
        ELSE IF low > half THEN (2 ^ j) - low
        ELSE IF bits >= 2 ^ j THEN half ELSE -half

\* the sum has binary exponent a + j and keeps 53 bits, so its last j bits
\* are rounded away
SumError(total, f, sign, j) ==
    IF j <= 0 THEN 0
    ELSE (IF total > 0 THEN 1 ELSE -1)
           * RoundToEven(DroppedBits(total, f, sign, j), j)

\* the rounding error d of fl(p + sign * sl), sign -1 or 1, in units of
\* 2^(a - 52)
SumRoundingError(p, f, sign) ==
    LET total == p * f.den + sign * f.num
    IN  SumError(total, f, sign, BinaryExponent(Abs(total), f.den) - f.a)

\* FloorNear for T < 0 and K # 0, e the binary exponent of |K|: K - 1 when
\* the value is nearer to the double below K than to K, the gap below K
\* being 2^(e - 52) for 2^e < K < 2^(e+1) and half of that for K = 2^e
FloorBelow(K, T, f, e) ==
    LET x == IF K > 0 /\ Abs(K) = 2 ^ e THEN e - f.a - 1 ELSE e - f.a
        lhs == 2 * Abs(T) * (IF x < 0 THEN 2 ^ (-x) ELSE 1)
        rhs == f.num * (IF x > 0 THEN 2 ^ x ELSE 1)
    IN  IF (IF f.r < 0 THEN lhs > rhs ELSE lhs >= rhs) THEN K - 1 ELSE K

\* math.floor of the double nearest to K + T / (num * 2^(52 - a) - r)
FloorNear(K, T, f) ==
    IF T >= 0 THEN K
    ELSE IF K = 0 THEN -1
    ELSE FloorBelow(K, T, f, BinaryExponent(Abs(K), 1))

\* FloorOfQuotient when p is the multiple k of num / den
FloorOnBoundary(p, k, f, sign) ==
    IF f.r = 0 THEN k + sign
    ELSE FloorNear(k + sign,
                   k * f.r + (IF sign = 0 THEN 0
                              ELSE SumRoundingError(p, f, sign)) * f.den,
                   f)

\* math.floor(fl(fl(p + sign * sl) / sl)), sign -1, 0 or 1
FloorOfQuotient(p, sl, sign) ==
    IF (p * sl.den) % sl.num # 0 \/ sl.num % sl.den = 0
    THEN ((p * sl.den) \div sl.num) + sign
    ELSE FloorOnBoundary(p, (p * sl.den) \div sl.num, FloatOf(sl), sign)

\* math.floor(p / subcell_length)
FloorDiv(p, sl) == FloorOfQuotient(p, sl, 0)


(***************************************************************************)
(* Neighbours._find_subcell                                                *)
(***************************************************************************)
\* `raise ValueError('subcell_id value is negative')'
find_subcell_raises(position, sl) ==
    \E axis \in Axes : FloorDiv(position[axis], sl) < 0

\* the linear subcell id; no upper bound is checked on any axis
find_subcell(position, sl, m) ==
    FloorDiv(position[1], sl)
      + (FloorDiv(position[2], sl) * m)
      + (FloorDiv(position[3], sl) * (m * m))

(***************************************************************************)
(* Neighbours._create_neighbours: the head list (start_index) and the      *)
(* linked list (neighbour_list).                                           *)
(***************************************************************************)
\* One pass of the loop body for particle i.  The read of
\* start_index[subcell_id] raises IndexError when subcell_id is past the
\* end of the list, and `except IndexError: pass' drops the particle.
InsertParticle(i, subcell_id, idx) ==
    IF subcell_id \in DOMAIN idx.start_index
    THEN [idx EXCEPT !.neighbour_list[i] = idx.start_index[subcell_id],
                     !.start_index[subcell_id] = i]
    ELSE idx

RECURSIVE create_neighbours_loop(_, _, _, _, _)
create_neighbours_loop(i, positions, sl, m, idx) ==
    IF i >= Cardinality(DOMAIN positions) THEN idx
    ELSE IF find_subcell_raises(positions[i], sl)
         THEN [idx EXCEPT !.raised = "ValueError"]
         ELSE create_neighbours_loop(i + 1, positions, sl, m,
                  InsertParticle(i, find_subcell(positions[i], sl, m), idx))

create_neighbours(positions, sl, m) ==
    create_neighbours_loop(0, positions, sl, m,
        [raised |-> "no",
         start_index |-> [c \in 0 .. (m * m * m - 1) |-> -1],
         neighbour_list |-> [p \in DOMAIN positions |-> -1]])

(***************************************************************************)
(* Neighbours._get_neighbours_subcells, _3d_subcell_id, _cell_y, _cell_z   *)
(***************************************************************************)
subcell_id_3d(particle_pos, sl) ==
    <<FloorDiv(particle_pos[1], sl), FloorDiv(particle_pos[2], sl),
      FloorDiv(particle_pos[3], sl)>>

\* math.floor((p - subcell_length) / subcell_length) and
\* math.floor((p + subcell_length) / subcell_length)
FloorMinus(p, sl) == FloorOfQuotient(p, sl, -1)
FloorPlus(p, sl) == FloorOfQuotient(p, sl, 1)

cell_y(positive, particle_pos, sl) ==
    IF positive = 0 THEN FloorPlus(particle_pos[2], sl)
                    ELSE FloorMinus(particle_pos[2], sl)

cell_z(positive, particle_pos, sl) ==
    IF positive = 0 THEN FloorPlus(particle_pos[3], sl)
                    ELSE FloorMinus(particle_pos[3], sl)

\* the 3d id of stencil cell 0..26 before the out-of-bounds correction,
\* from the particle's own 3d id and the 3d ids one subcell length below
\* (minus) and above (plus) it on every axis
StencilCellFrom(cell, own, minus, plus) ==
    LET x == IF cell \in 0 .. 8 THEN minus[1]
             ELSE IF cell \in 18 .. 26 THEN plus[1]
             ELSE own[1]
        y == IF cell \in {0, 1, 2, 9, 10, 11, 18, 19, 20} THEN minus[2]
             ELSE IF cell \in {6, 7, 8, 15, 16, 17, 24, 25, 26} THEN plus[2]
             ELSE own[2]
        z == IF cell \in {0, 3, 6, 9, 12, 15, 18, 21, 24} THEN minus[3]
             ELSE IF cell \in {2, 5, 8, 11, 14, 17, 20, 23, 26} THEN plus[3]
             ELSE own[3]
    IN  <<x, y, z>>

\* the 3d ids the loops over the cells write: x from the two floors of
\* lines 366-375, y and z from _cell_y and _cell_z
MinusCells(particle_pos, sl) ==
    <<FloorMinus(particle_pos[1], sl), cell_y(1, particle_pos, sl),
      cell_z(1, particle_pos, sl)>>
PlusCells(particle_pos, sl) ==
    <<FloorPlus(particle_pos[1], sl), cell_y(0, particle_pos, sl),
      cell_z(0, particle_pos, sl)>>

StencilCell3d(cell, particle_pos, sl) ==
    StencilCellFrom(cell, subcell_id_3d(particle_pos, sl),
                    MinusCells(particle_pos, sl), PlusCells(particle_pos, sl))

\* `if c < 0: c = m - 1' followed by `if c > m - 1: c = 0'
WrapCoordinate(c, m) ==
    LET c1 == IF c < 0 THEN m - 1 ELSE c
    IN  IF c1 > m - 1 THEN 0 ELSE c1

\* which of minus (1), own (2), plus (3) a cell takes on each axis: x by
\* the ranges 0..8 and 18..26, y and z by the lists of cells of the source
StencilSide(cell) ==
    StencilCellFrom(cell, <<2, 2, 2>>, <<1, 1, 1>>, <<3, 3, 3>>)

StencilSides == [cell \in 0 .. 26 |-> StencilSide(cell)]

\* the list of 27 linear subcell ids, indexed 0..26; the out-of-bounds
\* correction changes a coordinate by its value only, so it is applied
\* once to each of the nine coordinates the cells are made of
get_neighbours_subcells(particle_pos, sl, m) ==
    LET own == subcell_id_3d(particle_pos, sl)
        minus == MinusCells(particle_pos, sl)
        plus == PlusCells(particle_pos, sl)
        x == <<WrapCoordinate(minus[1], m), WrapCoordinate(own[1], m),
               WrapCoordinate(plus[1], m)>>
        y == <<WrapCoordinate(minus[2], m), WrapCoordinate(own[2], m),
               WrapCoordinate(plus[2], m)>>
        z == <<WrapCoordinate(minus[3], m), WrapCoordinate(own[3], m),
               WrapCoordinate(plus[3], m)>>
    IN  [cell \in 0 .. 26 |->
            x[StencilSides[cell][1]]
              + (y[StencilSides[cell][2]] * m)
              + (z[StencilSides[cell][3]] * (m * m))]

(***************************************************************************)
(* Neighbours._neighbours_for_one                                          *)
(***************************************************************************)
\* `while index >= 0: neighbours.append(index); index = neighbour_list[index]'
RECURSIVE WalkChain(_, _)
WalkChain(index, neighbour_list) ==
    IF index >= 0
    THEN <<index>> \o WalkChain(neighbour_list[index], neighbour_list)
    ELSE <<>>

\* all particles of the 27 stencil subcells, cell 0 first
RECURSIVE CollectCandidates(_, _, _, _)
CollectCandidates(cell, stencil, start_index, neighbour_list) ==
    IF cell > 26 THEN <<>>
    ELSE WalkChain(start_index[stencil[cell]], neighbour_list)
           \o CollectCandidates(cell + 1, stencil, start_index, neighbour_list)

\* abs(a - b), replaced by box_length - abs(a - b) when it exceeds
\* l = 2 * subcell_length
AxisDistanceMut(a, b, sl, box) == Abs(a - b)
AxisDistance(a, b, sl, box) ==
    LET dist == Abs(a - b)
    IN  IF dist * sl.den > 2 * sl.num THEN box - dist ELSE dist

\* np.linalg.norm of the three axis distances, as its square
Distance2(p, q, sl, box) ==
    Sq(AxisDistance(p[1], q[1], sl, box))
      + Sq(AxisDistance(p[2], q[2], sl, box))
      + Sq(AxisDistance(p[3], q[3], sl, box))

\* `if 0 < distance <= self.SystemInfo.cutoff()'
InCutoffMut(d2, cutoff) == d2 <= Sq(cutoff)
InCutoff(d2, cutoff) == 0 < d2 /\ d2 <= Sq(cutoff)

\* the loop over the candidates: keep, in order, every index > particle_ID
\* within the cutoff, with its distance
FilterCandidates(cands, particle_ID, positions, sl, box, cutoff) ==
    LET Kept(index) ==
            /\ index > particle_ID
            /\ InCutoff(Distance2(positions[particle_ID], positions[index],
                                  sl, box), cutoff)
        new_neighbours == SelectSeq(cands, Kept)
    IN  [nb_ID |-> new_neighbours,
         nb_dist |-> [k \in 1 .. Len(new_neighbours) |->
                         Distance2(positions[particle_ID],
                                   positions[new_neighbours[k]], sl, box)]]

\* geo gathers the fields the method reads: positions (SystemState),
\* start_index, neighbour_list, subcell_length (sl), subcells_inrow (m),
\* box_length (box) and SystemInfo.cutoff() (cutoff).
neighbours_for_one(particle_ID, geo) ==
    FilterCandidates(
        CollectCandidates(0,
            get_neighbours_subcells(geo.positions[particle_ID], geo.sl, geo.m),
            geo.start_index, geo.neighbour_list),
        particle_ID, geo.positions, geo.sl, geo.box, geo.cutoff)

(***************************************************************************)
(* Neighbours._create_neighbours_frame: the two dictionaries               *)
(* _neighbours_frame_IDs and _neighbours_frame_dist, as one record of two  *)
(* functions on the keys present.                                          *)
(***************************************************************************)
EmptyFrame == [IDs |-> [k \in {} |-> <<>>], dist |-> [k \in {} |-> <<>>]]

\* `if not nb': nb is a namedtuple of two fields, never an empty tuple
NotNb(nb) == Len(<<nb.nb_ID, nb.nb_dist>>) = 0

\* frame[key] = existing + ids (the key is created when it is missing)
Merge(frame, key, ids, dists) ==
    IF key \notin DOMAIN frame.IDs
    THEN [IDs |-> frame.IDs @@ (key :> ids),
          dist |-> frame.dist @@ (key :> dists)]
    ELSE [IDs |-> [frame.IDs EXCEPT ![key] = @ \o ids],
          dist |-> [frame.dist EXCEPT ![key] = @ \o dists]]

\* `for count, nb_index in enumerate(nb.nb_ID)': particle i and the same
\* distance nb.nb_dist[count] are appended under the neighbour's key
\* nb_index, the key being created when it is missing.  The loop is written
\* as its result: under each key, the entries the loop appends, in order.
Counts(nb, key) ==
    SelectSeq([count \in 1 .. Len(nb.nb_ID) |-> count],
              LAMBDA count : nb.nb_ID[count] = key)

SymmetrizeMut(i, nb, frame) == frame
Symmetrize(i, nb, frame) ==
    LET keys == DOMAIN frame.IDs
                  \cup { nb.nb_ID[count] : count \in 1 .. Len(nb.nb_ID) }
        Existing(f, key) == IF key \in DOMAIN f THEN f[key] ELSE <<>>
    IN  [IDs |-> [key \in keys |->
                    LET counts == Counts(nb, key)
                    IN  Existing(frame.IDs, key)
                          \o [n \in 1 .. Len(counts) |-> i]],
         dist |-> [key \in keys |->
                    LET counts == Counts(nb, key)
                    IN  Existing(frame.dist, key)
                          \o [n \in 1 .. Len(counts) |->
                                nb.nb_dist[counts[n]]]]]

\* the body of `for i in range(particle_number)': the frame after
\* particle i has been handled
create_neighbours_frame_body(i, geo, frame) ==
    LET nb == neighbours_for_one(i, geo)
    IN  IF NotNb(nb)
        THEN [IDs |-> (i :> nb.nb_ID) @@ frame.IDs,
              dist |-> (i :> nb.nb_dist) @@ frame.dist]
        ELSE Symmetrize(i, nb, Merge(frame, i, nb.nb_ID, nb.nb_dist))

RECURSIVE create_neighbours_frame_loop(_, _, _, _)
create_neighbours_frame_loop(i, particle_number, geo, frame) ==
    IF i >= particle_number THEN frame
    ELSE create_neighbours_frame_loop(i + 1, particle_number, geo,
             create_neighbours_frame_body(i, geo, frame))

create_neighbours_frame(geo) ==
    create_neighbours_frame_loop(0, num_particles(geo.positions), geo,
                                 EmptyFrame)

(***************************************************************************)
(* Neighbours.get_neighbours                                               *)
(***************************************************************************)
\* With the key missing, `neighbours' is never bound and building the
\* result raises UnboundLocalError.
get_neighbours_mut(particle_ID, IDs, dist) ==
    IF particle_ID \in DOMAIN IDs
    THEN [outcome |-> "ok", nb_ID |-> IDs[particle_ID],
          nb_dist |-> dist[particle_ID]]
    ELSE [outcome |-> "ok", nb_ID |-> <<>>, nb_dist |-> <<>>]
get_neighbours(particle_ID, IDs, dist) ==
    IF particle_ID \in DOMAIN IDs
    THEN [outcome |-> "ok", nb_ID |-> IDs[particle_ID],
          nb_dist |-> dist[particle_ID]]
    ELSE [outcome |-> "UnboundLocalError", nb_ID |-> <<>>, nb_dist |-> <<>>]

(***************************************************************************)
(* The movement test of Neighbours.update_neighbours:                      *)
(*   movement = np.sqrt(positions_old**2 - positions_current**2)           *)
(*   if np.max(movement) > (self._skin_radius - self.SystemInfo.cutoff())  *)
(* Elementwise; the square root of a negative entry is nan, np.max of an   *)
(* array holding a nan is nan, and nan > x is False.                       *)
(***************************************************************************)
MovementSq(old, cur) ==
    { Sq(old[p][a]) - Sq(cur[p][a]) : p \in DOMAIN old, a \in Axes }

MovementHasNan(old, cur) == \E v \in MovementSq(old, cur) : v < 0

MovementExceeds(old, cur, margin) ==
    /\ ~ MovementHasNan(old, cur)
    /\ \E v \in MovementSq(old, cur) : margin < 0 \/ v > Sq(margin)

(***************************************************************************)
(* State                                                                   *)
(***************************************************************************)
VARIABLES
    phase,                  \* "none" (System.__init__ raised, there is no
                            \* System), "new" (a System without
                            \* Neighbours), "ready" (Neighbours built) or
                            \* "failed" (Neighbours.__init__ raised)
    config,                 \* the constructor arguments
    states,                 \* System._systemStates: the positions arrays
    char_length,            \* SystemInfo._char_length
    cutoff_radius,          \* SystemInfo._cutoff_radius
    SystemState,            \* Neighbours.SystemState: index into states()
    box_length,             \* Neighbours._box_length
    skin_radius,            \* Neighbours._skin_radius
    subcells_inrow,         \* Neighbours._subcells_inrow
    subcell_length,         \* Neighbours._subcell_length, a fraction
    start_index,            \* Neighbours._start_index (head)
    neighbour_list,         \* Neighbours._neighbour_list (next)
    neighbours_frame_IDs,   \* Neighbours._neighbours_frame_IDs
    neighbours_frame_dist,  \* Neighbours._neighbours_frame_dist
    last_update,            \* Neighbours._last_update
    update_count,           \* Neighbours._update_count
    frame_pc,               \* where a running update_neighbours stands in
                            \* the loop of _create_neighbours_frame: the
                            \* particle i of the pass, the number of
                            \* particles after the loop, -1 when no call
                            \* runs
    frame_count,            \* the `count' of the inner loop of the pass,
                            \* -1 while the pass writes the particle's own
                            \* key
    frame_nb,               \* the local variable `nb' of the pass
    frame_next,             \* the statement the running update_neighbours
                            \* executes next, "none" when no call runs
    reader_line,            \* the line a running get_neighbours of another
                            \* thread executes next (336, 337), 0 when no
                            \* call runs
    reader_ID,              \* its argument particle_ID
    reader_neighbours,      \* its local variable `neighbours'
    result                  \* the last call: what it was, how it ended,
                            \* what it returned, which builders it ran

info_vars == <<config, char_length, cutoff_radius>>
grid_vars == <<SystemState, box_length, skin_radius, subcells_inrow,
               subcell_length>>
index_vars == <<start_index, neighbour_list>>
frame_vars == <<neighbours_frame_IDs, neighbours_frame_dist>>
sched_vars == <<last_update, update_count>>
writer_vars == <<frame_pc, frame_count, frame_nb, frame_next>>
reader_vars == <<reader_line, reader_ID, reader_neighbours>>
vars == <<phase, states, info_vars, grid_vars, index_vars, frame_vars,
          sched_vars, writer_vars, reader_vars, result>>

\* the writer's `nb' before the first pass and after the last
NoNb == [nb_ID |-> <<>>, nb_dist |-> <<>>]

Result(op, arg, outcome, nb_ID, nb_dist, calls) ==
    [op |-> op, arg |-> arg, outcome |-> outcome,
     nb_ID |-> nb_ID, nb_dist |-> nb_dist, calls |-> calls]

\* the positions array of states()[k]
PositionsOf(k) == states[k + 1]

\* the fields _neighbours_for_one reads
Geo == [positions |-> PositionsOf(SystemState),
        start_index |-> start_index, neighbour_list |-> neighbour_list,
        sl |-> subcell_length, m |-> subcells_inrow,
        box |-> box_length, cutoff |-> cutoff_radius]

(***************************************************************************)
(* System.__init__: SystemInfo.__init__ sets the cutoff radius and the     *)
(* rounded length and raises ValueError when the cutoff exceeds half of    *)
(* that length, in which case no System exists; otherwise the list of      *)
(* states holds one SystemState, whose _neighbours is None.                *)
(***************************************************************************)
SystemInit(c, positions) ==
    /\ config = c
    /\ IF SystemInfoRaises(c.characteristic_length, c.sigma)
       THEN /\ phase = "none"
            /\ states = <<>>
            /\ char_length = 0
            /\ cutoff_radius = 0
            /\ result = Result("System", 0, "ValueError", <<>>, <<>>, <<>>)
       ELSE /\ phase = "new"
            /\ states = <<positions>>
            /\ char_length = char_length_of(c.characteristic_length, c.sigma)
            /\ cutoff_radius = cutoff_of(c.sigma)
            /\ result = Result("System", 0, "ok", <<>>, <<>>, <<>>)

Init ==
    /\ \/ \E c \in Configs, positions \in PositionArrays :
            SystemInit(c, positions)
       \/ \E c \in RoundedConfigs, positions \in RoundedPositionArrays :
            SystemInit(c, positions)
    /\ SystemState = 0
    /\ box_length = 0
    /\ skin_radius = 0
    /\ subcells_inrow = 0
    /\ subcell_length = SubcellLength(0, 0)
    /\ start_index = <<>>
    /\ neighbour_list = <<>>
    /\ neighbours_frame_IDs = EmptyFrame.IDs
    /\ neighbours_frame_dist = EmptyFrame.dist
    /\ last_update = 0
    /\ update_count = 0
    /\ frame_pc = -1
    /\ frame_count = -1
    /\ frame_nb = NoNb
    /\ frame_next = "none"
    /\ reader_line = 0
    /\ reader_ID = 0
    /\ reader_neighbours = <<>>

(***************************************************************************)
(* SystemState.neighbours() on a System whose Neighbours is not built:     *)
(* Neighbours.__init__ runs on the current state, states()[-1].  When it   *)
(* raises, _neighbours stays None and the call can be made again.  The     *)
(* model follows the Neighbours instance built by the first call that      *)
(* succeeds.                                                               *)
(***************************************************************************)
Construct ==
    /\ phase \in {"new", "failed"}
    /\ UNCHANGED <<states, info_vars, writer_vars, reader_vars>>
    /\ LET box == char_length
           skin == worse_sigma_of(config) * 3
           m == create_subcells(skin, box)
           sl == SubcellLength(box, m)
           bound == Len(states) - 1
       IN  \E idx \in { create_neighbours(PositionsOf(bound), sl, m) } :
           IF idx.raised = "ValueError"
           THEN /\ phase' = "failed"
                /\ result' = Result("construct", bound, "ValueError",
                       <<>>, <<>>,
                       <<"_create_subcells", "_create_neighbours">>)
                /\ UNCHANGED <<grid_vars, index_vars, frame_vars,
                               sched_vars>>
           ELSE \E frame \in { create_neighbours_frame(
                                   [positions |-> PositionsOf(bound),
                                    start_index |-> idx.start_index,
                                    neighbour_list |-> idx.neighbour_list,
                                    sl |-> sl, m |-> m, box |-> box,
                                    cutoff |-> cutoff_radius]) } :
                /\ phase' = "ready"
                /\ SystemState' = bound
                /\ box_length' = box
                /\ skin_radius' = skin
                /\ subcells_inrow' = m
                /\ subcell_length' = sl
                /\ start_index' = idx.start_index
                /\ neighbour_list' = idx.neighbour_list
                /\ neighbours_frame_IDs' = frame.IDs
                /\ neighbours_frame_dist' = frame.dist
                /\ last_update' = 0
                /\ update_count' = 0
                /\ result' = Result("construct", bound, "ok", <<>>, <<>>,
                       <<"_create_subcells", "_create_neighbours",
                         "_create_neighbours_frame">>)

(***************************************************************************)
(* System.update_state(new_state).  The argument is a SystemState, a list  *)
(* (of SystemStates, or empty) or something else (an int).  A new          *)
(* SystemState holds the current positions with one particle (the first    *)
(* or the last) placed at another point; a list holds 0, 1 or 2 of them.   *)
(* The method has no precondition: it is called before the Neighbours is   *)
(* built, after a failed build and while another thread runs               *)
(* update_neighbours.                                                      *)
(***************************************************************************)
\* the current positions with particle p at point
Moved(p, point) == [states[Len(states)] EXCEPT ![p] = point]

\* the arguments: `list' holds the positions arrays of the SystemStates;
\* without a System there is nothing to call update_state on
NewStates ==
    IF phase = "none" THEN {}
    ELSE { [type |-> "SystemState", list |-> <<Moved(p, point)>>] :
             p \in MovedParticles, point \in MovePoints }
         \cup { [type |-> "list",
                 list |-> [k \in 1 .. n |-> Moved(p, point)]] :
                 p \in MovedParticles, point \in MovePoints,
                 n \in ListLengths }
         \cup { [type |-> "int", list |-> <<>>] }

UpdateState(new_state) ==
    /\ phase # "none"
    /\ Len(states) < MaxStates
    /\ IF new_state.type = "SystemState"
       THEN \* `self._systemStates.append(new_state)'
            /\ states' = Append(states, new_state.list[1])
            /\ result' = Result("update_state", 0, "ok", <<>>, <<>>, <<>>)
       ELSE IF new_state.type = "list"
       THEN IF Len(new_state.list) = 0
            THEN \* `new_state[0]' of an empty list
                 /\ result' = Result("update_state", 0, "IndexError",
                                     <<>>, <<>>, <<>>)
                 /\ UNCHANGED states
            ELSE \* `self._systemStates.extend(new_state)'
                 /\ states' = states \o new_state.list
                 /\ result' = Result("update_state", 0, "ok",
                                     <<>>, <<>>, <<>>)
       ELSE /\ result' = Result("update_state", 0, "TypeError",
                                <<>>, <<>>, <<>>)
            /\ UNCHANGED states
    /\ UNCHANGED <<phase, info_vars, grid_vars, index_vars, frame_vars,
                   sched_vars, writer_vars, reader_vars>>

(***************************************************************************)
(* Neighbours.update_neighbours (step)                                     *)
(***************************************************************************)
Step ==
    /\ phase = "ready"
    /\ frame_pc = -1
    /\ \E frame \in { create_neighbours_frame(Geo) } :
       LET positions_old == PositionsOf(last_update)
           positions_current == states[Len(states)]
       IN  /\ neighbours_frame_IDs' = frame.IDs
           /\ neighbours_frame_dist' = frame.dist
           /\ IF MovementExceeds(positions_old, positions_current,
                                 skin_radius - cutoff_radius)
              THEN \* `self._neighbour_list = self._create_neigbours': the
                   \* attribute does not exist, AttributeError is raised
                   /\ result' = Result("update_neighbours", 0,
                          "AttributeError", <<>>, <<>>,
                          <<"_create_neighbours_frame">>)
                   /\ UNCHANGED sched_vars
              ELSE \* `self._update_count = + 1'
                   /\ update_count' = 1
                   /\ UNCHANGED last_update
                   /\ result' = Result("update_neighbours", 0, "ok",
                          <<>>, <<>>, <<"_create_neighbours_frame">>)
    /\ UNCHANGED <<phase, states, info_vars, grid_vars, index_vars,
                   writer_vars, reader_vars>>

(***************************************************************************)
(* Neighbours.get_neighbours (query)                                       *)
(***************************************************************************)
Query(particle_ID) ==
    /\ phase = "ready"
    /\ reader_line = 0
    /\ \E r \in { get_neighbours(particle_ID, neighbours_frame_IDs,
                                   neighbours_frame_dist) } :
           result' = Result("get_neighbours", particle_ID, r.outcome,
                            r.nb_ID, r.nb_dist, <<>>)
    /\ UNCHANGED <<phase, states, info_vars, grid_vars, index_vars,
                   frame_vars, sched_vars, writer_vars, reader_vars>>

Next ==
    \/ Construct
    \/ \E new_state \in NewStates : UpdateState(new_state)
    \/ Step
    \/ \E particle_ID \in -1 .. NumParticles : Query(particle_ID)

Spec == Init /\ [][Next]_vars

(***************************************************************************)
(* Two threads on one Neighbours instance, no lock taken: one runs         *)
(* update_neighbours, the other get_neighbours, each as the statements it  *)
(* executes on the two dictionaries of the instance.                       *)
(*                                                                         *)
(* The writer.  _create_neighbours_frame rebinds the two dictionaries to   *)
(* empty ones (lines 263, 264) and fills them in its loop; every pass      *)
(* writes the particle's own key (lines 271-272, 276-277 or 289-290) and   *)
(* then, for each neighbour found, the neighbour's key (lines 297-298 or   *)
(* 310-311), the entry of _neighbours_frame_IDs before that of             *)
(* _neighbours_frame_dist.  A step of the writer is one of these writes    *)
(* with the statements between it and the next write, which read only what *)
(* no other thread writes.                                                 *)
(***************************************************************************)
\* the dictionary with dict[key] = value
Put(dict, key, value) ==
    [k \in DOMAIN dict \cup {key} |-> IF k = key THEN value ELSE dict[k]]

\* `existing + new', or `new' for a key that is not in the dictionary
Extended(dict, key, new) ==
    IF key \in DOMAIN dict THEN dict[key] \o new ELSE new

\* the key the running pass writes next: the particle's own, or nb_index
FrameKey ==
    IF frame_count = -1 THEN frame_pc ELSE frame_nb.nb_ID[frame_count + 1]

\* line 263: `self._neighbours_frame_IDs = {}'
StepEmptyIDs ==
    /\ phase = "ready"
    /\ frame_pc = -1
    /\ neighbours_frame_IDs' = EmptyFrame.IDs
    /\ frame_pc' = 0
    /\ frame_next' = "dist = {}"
    /\ UNCHANGED <<phase, states, info_vars, grid_vars, index_vars,
                   neighbours_frame_dist, sched_vars, frame_count, frame_nb,
                   reader_vars, result>>

\* line 264: `self._neighbours_frame_dist = {}'; the loop is entered (or
\* left at once when there is no particle) and line 267 finds the
\* neighbours of particle 0
StepEmptyDist ==
    /\ frame_next = "dist = {}"
    /\ neighbours_frame_dist' = EmptyFrame.dist
    /\ IF num_particles(Geo.positions) > 0
       THEN /\ frame_nb' = neighbours_for_one(0, Geo)
            /\ frame_next' = "IDs[key]"
       ELSE /\ frame_nb' = NoNb
            /\ frame_next' = "movement"
    /\ UNCHANGED <<phase, states, info_vars, grid_vars, index_vars,
                   neighbours_frame_IDs, sched_vars, frame_pc, frame_count,
                   reader_vars, result>>

\* lines 271, 276, 289 (the particle's own key) and 297, 310 (nb_index):
\* the write to _neighbours_frame_IDs
StepFrameIDs ==
    /\ frame_next = "IDs[key]"
    /\ LET nb == frame_nb
           value == IF frame_count >= 0
                    THEN Extended(neighbours_frame_IDs, FrameKey,
                                  <<frame_pc>>)
                    ELSE IF NotNb(nb) THEN nb.nb_ID
                    ELSE Extended(neighbours_frame_IDs, FrameKey, nb.nb_ID)
       IN  neighbours_frame_IDs' = Put(neighbours_frame_IDs, FrameKey, value)
    /\ frame_next' = "dist[key]"
    /\ UNCHANGED <<phase, states, info_vars, grid_vars, index_vars,
                   neighbours_frame_dist, sched_vars, frame_pc, frame_count,
                   frame_nb, reader_vars, result>>

\* lines 272, 277, 290 (the particle's own key) and 298, 311 (nb_index):
\* the write to _neighbours_frame_dist, and the loops' next round, line
\* 267 of the next pass included.  The branch was taken on the keys of
\* _neighbours_frame_IDs before its write, which were those
\* _neighbours_frame_dist has now.
StepFrameDist ==
    /\ frame_next = "dist[key]"
    /\ LET nb == frame_nb
           value == IF frame_count >= 0
                    THEN Extended(neighbours_frame_dist, FrameKey,
                                  <<nb.nb_dist[frame_count + 1]>>)
                    ELSE IF NotNb(nb) THEN nb.nb_dist
                    ELSE Extended(neighbours_frame_dist, FrameKey,
                                  nb.nb_dist)
           more == ~ NotNb(nb) /\ frame_count + 1 < Len(nb.nb_ID)
           last == frame_pc + 1 >= num_particles(Geo.positions)
       IN  /\ neighbours_frame_dist' =
                  Put(neighbours_frame_dist, FrameKey, value)
           /\ frame_count' = IF more THEN frame_count + 1 ELSE -1
           /\ frame_pc' = IF more THEN frame_pc ELSE frame_pc + 1
           /\ frame_nb' = IF more THEN nb
                          ELSE IF last THEN NoNb
                          ELSE neighbours_for_one(frame_pc + 1, Geo)
           /\ frame_next' = IF more \/ ~ last THEN "IDs[key]"
                            ELSE "movement"
    /\ UNCHANGED <<phase, states, info_vars, grid_vars, index_vars,
                   neighbours_frame_IDs, sched_vars, reader_vars, result>>

\* the rest of update_neighbours, from the movement test on
StepMovementTest ==
    /\ frame_next = "movement"
    /\ frame_pc' = -1
    /\ frame_next' = "none"
    /\ IF MovementExceeds(PositionsOf(last_update), states[Len(states)],
                          skin_radius - cutoff_radius)
       THEN /\ result' = Result("update_neighbours", 0, "AttributeError",
                   <<>>, <<>>, <<"_create_neighbours_frame">>)
            /\ UNCHANGED sched_vars
       ELSE /\ update_count' = 1
            /\ UNCHANGED last_update
            /\ result' = Result("update_neighbours", 0, "ok",
                   <<>>, <<>>, <<"_create_neighbours_frame">>)
    /\ UNCHANGED <<phase, states, info_vars, grid_vars, index_vars,
                   frame_vars, frame_count, frame_nb, reader_vars>>

(***************************************************************************)
(* The reader.  get_neighbours reads the instance three times: the key     *)
(* test on _neighbours_frame_IDs (line 335), the entry of                  *)
(* _neighbours_frame_IDs (336) and the entry of _neighbours_frame_dist     *)
(* (337); reading an entry under a missing key raises KeyError.            *)
(***************************************************************************)
\* line 335; with the key missing the call goes on to line 340 and raises
\* UnboundLocalError
QueryTest(particle_ID) ==
    /\ phase = "ready"
    /\ reader_line = 0
    /\ IF particle_ID \in DOMAIN neighbours_frame_IDs
       THEN /\ reader_line' = 336
            /\ reader_ID' = particle_ID
            /\ UNCHANGED <<reader_neighbours, result>>
       ELSE /\ result' = Result("get_neighbours", particle_ID,
                                "UnboundLocalError", <<>>, <<>>, <<>>)
            /\ UNCHANGED reader_vars
    /\ UNCHANGED <<phase, states, info_vars, grid_vars, index_vars,
                   frame_vars, sched_vars, writer_vars>>

\* line 336: `neighbours = self._neighbours_frame_IDs[particle_ID]'
QueryReadIDs ==
    /\ reader_line = 336
    /\ IF reader_ID \in DOMAIN neighbours_frame_IDs
       THEN /\ reader_line' = 337
            /\ reader_neighbours' = neighbours_frame_IDs[reader_ID]
            /\ UNCHANGED <<reader_ID, result>>
       ELSE /\ result' = Result("get_neighbours", reader_ID, "KeyError",
                                <<>>, <<>>, <<>>)
            /\ reader_line' = 0
            /\ reader_ID' = 0
            /\ UNCHANGED reader_neighbours
    /\ UNCHANGED <<phase, states, info_vars, grid_vars, index_vars,
                   frame_vars, sched_vars, writer_vars>>

\* line 337: `neighbours_distance = self._neighbours_frame_dist[particle_ID]'
\* and the return of the two lists
QueryReadDist ==
    /\ reader_line = 337
    /\ IF reader_ID \in DOMAIN neighbours_frame_dist
       THEN result' = Result("get_neighbours", reader_ID, "ok",
                             reader_neighbours,
                             neighbours_frame_dist[reader_ID], <<>>)
       ELSE result' = Result("get_neighbours", reader_ID, "KeyError",
                             <<>>, <<>>, <<>>)
    /\ reader_line' = 0
    /\ reader_ID' = 0
    /\ reader_neighbours' = <<>>
    /\ UNCHANGED <<phase, states, info_vars, grid_vars, index_vars,
                   frame_vars, sched_vars, writer_vars>>

NextInterleaved ==
    \/ Construct
    \/ \E new_state \in NewStates : UpdateState(new_state)
    \/ StepEmptyIDs
    \/ StepEmptyDist
    \/ StepFrameIDs
    \/ StepFrameDist
    \/ StepMovementTest
    \/ \E particle_ID \in -1 .. NumParticles : QueryTest(particle_ID)
    \/ QueryReadIDs
    \/ QueryReadDist

SpecInterleaved == Init /\ [][NextInterleaved]_vars

(***************************************************************************)
(* Vocabulary of the properties                                            *)
(***************************************************************************)
Ready == phase = "ready"

\* the positions the cache is computed from
CachePositions == PositionsOf(SystemState)

\* min(|a - b|, box - |a - b|), for any two coordinates: the distance to
\* the nearest periodic image
MinimumImage(a, b, box) ==
    LET r == Abs(a - b) % box
    IN  IF r <= box - r THEN r ELSE box - r

MinimumImageDistance2(p, q, box) ==
    Sq(MinimumImage(p[1], q[1], box)) + Sq(MinimumImage(p[2], q[2], box))
      + Sq(MinimumImage(p[3], q[3], box))

InBox(p, box) == \A axis \in Axes : 0 <= p[axis] /\ p[axis] < box

Occurrences(seq, v) == Cardinality({ k \in 1 .. Len(seq) : seq[k] = v })

CacheHasPairs ==
    \E i \in DOMAIN neighbours_frame_IDs : Len(neighbours_frame_IDs[i]) > 0

\* C1: the cache is symmetric: every j stored under i has i stored under j,
\* and every distance stored for i under j equals the one stored for j
\* under i.
C1_Symmetry ==
    Ready =>
      \A i \in DOMAIN neighbours_frame_IDs :
        \A k \in 1 .. Len(neighbours_frame_IDs[i]) :
          LET j == neighbours_frame_IDs[i][k]
          IN  /\ j \in DOMAIN neighbours_frame_IDs
              /\ \E k2 \in 1 .. Len(neighbours_frame_IDs[j]) :
                     neighbours_frame_IDs[j][k2] = i
              /\ \A k2 \in 1 .. Len(neighbours_frame_IDs[j]) :
                     neighbours_frame_IDs[j][k2] = i
                       => neighbours_frame_dist[j][k2]
                            = neighbours_frame_dist[i][k]

\* C1 witness: a cache with pairs in it, after a step
C1_Witness ==
    Ready /\ result.op = "update_neighbours" /\ CacheHasPairs

\* C2: with at least 3 subcells per row, skin radius above the cutoff and
\* all positions inside the box, every pair of particles whose minimum-image
\* distance is positive and at most the cutoff is cached exactly once in
\* each of the two adjacency lists.
C2_PairsWithinCutoffCachedOnce ==
    ( /\ Ready
      /\ subcells_inrow >= 3
      /\ skin_radius > cutoff_radius
      /\ \A p \in ParticleIds : InBox(CachePositions[p], box_length) )
    => \A i, j \in ParticleIds :
         ( /\ i < j
           /\ LET d2 == MinimumImageDistance2(CachePositions[i],
                                               CachePositions[j], box_length)
              IN  0 < d2 /\ d2 <= Sq(cutoff_radius) )
         => /\ Occurrences(neighbours_frame_IDs[i], j) = 1
            /\ Occurrences(neighbours_frame_IDs[j], i) = 1

\* every stored distance is the minimum-image distance of its pair in the
\* box of side box_length
StoredDistancesAreMinimumImage ==
    \A i \in DOMAIN neighbours_frame_IDs :
      \A k \in 1 .. Len(neighbours_frame_IDs[i]) :
        neighbours_frame_dist[i][k]
          = MinimumImageDistance2(CachePositions[i],
                CachePositions[neighbours_frame_IDs[i][k]], box_length)

\* a system asked for with length 10 and sigma 1 (cutoff 3) whose particles
\* 0 and 1 are at (0,0,0) and (9,0,0)
WrapExample ==
    /\ Ready
    /\ config.characteristic_length = 10
    /\ cutoff_radius = 3
    /\ CachePositions[0] = <<0, 0, 0>>
    /\ CachePositions[1] = <<9, 0, 0>>

\* particles 0 and 1 are mutual neighbours at the distance whose square
\* is d2
MutualNeighboursAt(d2) ==
    /\ \E k \in 1 .. Len(neighbours_frame_IDs[0]) :
           neighbours_frame_IDs[0][k] = 1 /\ neighbours_frame_dist[0][k] = d2
    /\ \E k \in 1 .. Len(neighbours_frame_IDs[1]) :
           neighbours_frame_IDs[1][k] = 0 /\ neighbours_frame_dist[1][k] = d2

\* C3 as stated: every stored distance is the minimum-image distance of its
\* pair, and with box length 10, cutoff 3 and particles at (0,0,0) and
\* (9,0,0) the two are mutual neighbours at distance 1.
C3_Original ==
    /\ Ready => StoredDistancesAreMinimumImage
    /\ WrapExample => MutualNeighboursAt(1)

\* C3 amended: every stored distance is the minimum-image distance of its
\* pair in the box of side char_length, the requested length rounded up to
\* a multiple of the cutoff; a box asked for with length 10 and cutoff 3 has
\* side 12, and particles at (0,0,0) and (9,0,0) are mutual neighbours at
\* distance 3 (stored square 9).
C3_StoredDistanceIsMinimumImage ==
    /\ Ready => /\ StoredDistancesAreMinimumImage
                /\ box_length = char_length
                /\ box_length % cutoff_radius = 0
                /\ box_length >= config.characteristic_length
                /\ box_length < config.characteristic_length + cutoff_radius
    /\ WrapExample => box_length = 12 /\ MutualNeighboursAt(9)

\* C3 witness: the example system, constructed and stepped
C3_Witness ==
    WrapExample /\ result.op = "update_neighbours" /\ MutualNeighboursAt(9)

\* C4: no particle is its own neighbour and every stored distance d
\* satisfies 0 < d <= cutoff (on the stored squares: 0 < d^2 <= cutoff^2).
C4_NoSelfAndWithinCutoff ==
    Ready =>
      \A i \in DOMAIN neighbours_frame_IDs :
        \A k \in 1 .. Len(neighbours_frame_IDs[i]) :
          /\ neighbours_frame_IDs[i][k] # i
          /\ 0 < neighbours_frame_dist[i][k]
          /\ neighbours_frame_dist[i][k] <= Sq(cutoff_radius)

\* C4 witness: after a step the cache holds a pair whose distance is exactly
\* the cutoff
C4_Witness ==
    /\ Ready
    /\ result.op = "update_neighbours"
    /\ \E i \in DOMAIN neighbours_frame_IDs :
         \E k \in 1 .. Len(neighbours_frame_IDs[i]) :
           neighbours_frame_dist[i][k] = Sq(cutoff_radius)

\* C5: no constructed instance has fewer than 3 subcells per row.
C5_AtLeastThreeSubcells == Ready => subcells_inrow >= 3

\* C6: in every constructed instance the skin radius exceeds the cutoff.
C6_PositiveSkinMargin == Ready => skin_radius > cutoff_radius

\* the square of the Euclidean norm of particle p's displacement between
\* the last-rebuild snapshot and the current positions
Displacement2(p) ==
    LET old == PositionsOf(last_update)[p]
        cur == states[Len(states)][p]
    IN  Sq(cur[1] - old[1]) + Sq(cur[2] - old[2]) + Sq(cur[3] - old[3])

SkinMargin == skin_radius - cutoff_radius

MovedBeyondMargin(p) ==
    SkinMargin < 0 \/ Displacement2(p) > Sq(SkinMargin)

\* exactly one particle has moved since the last rebuild, by more than the
\* skin margin
SingleParticleMovedBeyondMargin ==
    \E p \in ParticleIds :
      /\ MovedBeyondMargin(p)
      /\ \A q \in ParticleIds \ {p} : Displacement2(q) = 0

NoParticleMovedBeyondMargin ==
    \A p \in ParticleIds : ~ MovedBeyondMargin(p)

\* the transition is a call of update_neighbours
IsStep == phase = "ready" /\ result'.op = "update_neighbours"

\* C7: with a positive skin margin, a step taken after a single particle
\* has moved by more than the skin margin completes without error and
\* rebuilds: the index build and the cache assembly run and the
\* last-rebuild snapshot becomes the current state.
C7_StepRebuildsAfterMove ==
    [][ (IsStep /\ SkinMargin > 0 /\ SingleParticleMovedBeyondMargin)
          => /\ result'.outcome = "ok"
             /\ last_update' = Len(states) - 1
             /\ \E n \in 1 .. Len(result'.calls) :
                    result'.calls[n] = "_create_neighbours"
             /\ \E n \in 1 .. Len(result'.calls) :
                    result'.calls[n] = "_create_neighbours_frame" ]_vars

\* C8: with a positive skin margin, a step taken while no particle has
\* moved by more than the skin margin leaves the index and the cache
\* unchanged and runs neither the index build nor the cache assembly.
C8_StepBelowMarginDoesNoWork ==
    [][ (IsStep /\ SkinMargin > 0 /\ NoParticleMovedBeyondMargin)
          => /\ UNCHANGED <<index_vars, frame_vars>>
             /\ result'.calls = <<>> ]_vars

\* C9: a query for an id outside 0..N-1 ends in an error and returns no
\* result; a query for an id in 0..N-1 returns that particle's cached pair.
C9_QueryOutcome ==
    (Ready /\ result.op = "get_neighbours") =>
      IF result.arg \in ParticleIds
      THEN /\ result.outcome = "ok"
           /\ result.nb_ID = neighbours_frame_IDs[result.arg]
           /\ result.nb_dist = neighbours_frame_dist[result.arg]
      ELSE result.outcome # "ok"

\* C9 witness: a query for the id N, one past the last particle, has ended
\* in an error
C9_Witness ==
    /\ Ready
    /\ result.op = "get_neighbours"
    /\ result.arg = NumParticles
    /\ result.outcome = "UnboundLocalError"

\* the grid a configuration yields
GridOf(c) ==
    LET box == char_length_of(c.characteristic_length, c.sigma)
        m == create_subcells(worse_sigma_of(c) * 3, box)
    IN  [m |-> m, sl |-> SubcellLength(box, m)]

\* some particle of the state the build ran on, states()[result.arg], maps
\* to a subcell coordinate below 0 or not below m
SomeCoordinateOutOfRange ==
    \E p \in ParticleIds, axis \in Axes :
      LET c == FloorDiv(PositionsOf(result.arg)[p][axis], GridOf(config).sl)
      IN  c < 0 \/ c >= GridOf(config).m

\* C10: an index build (on a grid of at least 3 subcells per row) over
\* positions of which one maps to a subcell coordinate below 0 or not below
\* subcells_inrow aborts with an error.
C10_OutOfRangeAbortsBuild ==
    ( /\ result.op = "construct"
      /\ GridOf(config).m >= 3
      /\ SomeCoordinateOutOfRange )
    => result.outcome = "ValueError"


\* the chain of subcell c: the particles reached from start_index[c]
\* through neighbour_list
Chain(c) == WalkChain(start_index[c], neighbour_list)

\* the subcells whose chain holds particle p
ChainsHolding(p) ==
    { c \in DOMAIN start_index : Occurrences(Chain(c), p) > 0 }

\* the linear id of the subcell containing a position wrapped into
\* [0, box_length)
WrappedSubcell(position) ==
    find_subcell([axis \in Axes |-> position[axis] % box_length],
                 subcell_length, subcells_inrow)

\* C11: after an index build that completes without error (on a grid of at
\* least 3 subcells per row), whatever the positions, every particle id
\* appears exactly once in exactly one chain, the chain of the subcell that
\* contains the particle's position wrapped into [0, box_length).
C11_EveryParticleInItsWrappedChain ==
    (Ready /\ subcells_inrow >= 3) =>
      \A p \in ParticleIds :
        /\ ChainsHolding(p) = { WrappedSubcell(CachePositions[p]) }
        /\ \A c \in ChainsHolding(p) : Occurrences(Chain(c), p) = 1


\* the test update_neighbours makes before the rebuild branch, on the
\* snapshot states()[_last_update] and the current state
ShouldRebuild ==
    MovementExceeds(PositionsOf(last_update), states[Len(states)],
                    skin_radius - cutoff_radius)

SomeParticleMovedBeyondMargin ==
    \E p \in ParticleIds : MovedBeyondMargin(p)

\* C12: (with a positive skin margin) a step decides to rebuild exactly when
\* the largest Euclidean displacement of a particle since the last build
\* exceeds skin_radius - cutoff_radius, whatever the absolute positions and
\* the direction of the move.
C12_RebuildDecisionIsMaxDisplacement ==
    [][ (IsStep /\ SkinMargin > 0)
          => (ShouldRebuild <=> SomeParticleMovedBeyondMargin) ]_vars


\* the stencil computed for a position on the grid of the instance, as the
\* list of 27 linear ids
StencilOf(position) ==
    get_neighbours_subcells(position, subcell_length, subcells_inrow)

\* the linear ids of the subcells ((cx+dx) mod m, (cy+dy) mod m,
\* (cz+dz) mod m), dx, dy, dz in {-1, 0, 1}, around the subcell
\* (cx, cy, cz) of the position
PeriodicCube(position) ==
    LET m == subcells_inrow
        own == subcell_id_3d(position, subcell_length)
    IN  { ((own[1] + dx) % m) + (((own[2] + dy) % m) * m)
            + (((own[3] + dz) % m) * (m * m)) :
          dx \in -1 .. 1, dy \in -1 .. 1, dz \in -1 .. 1 }

\* C13: for every particle position inside the box and at least 3 subcells
\* per row, the stencil holds 27 pairwise distinct linear ids, exactly those
\* of the subcells ((cx+dx) mod m, (cy+dy) mod m, (cz+dz) mod m) for dx, dy,
\* dz in {-1, 0, 1}: a coordinate below 0 wraps to m-1, a coordinate >= m
\* wraps to 0.
C13_StencilIsPeriodicCube ==
    (Ready /\ subcells_inrow >= 3) =>
      \A p \in ParticleIds :
        InBox(CachePositions[p], box_length) =>
          LET stencil == StencilOf(CachePositions[p])
              ids == { stencil[cell] : cell \in 0 .. 26 }
          IN  /\ DOMAIN stencil = 0 .. 26
              /\ Cardinality(ids) = 27
              /\ ids = PeriodicCube(CachePositions[p])

\* C16: (with a positive skin margin) every step that does not decide a
\* rebuild increments the step counter by exactly one, so that k such steps
\* leave it k larger.
C16_CounterIncrementsByOne ==
    [][ (IsStep /\ SkinMargin > 0 /\ ~ ShouldRebuild)
          => update_count' = update_count + 1 ]_vars


\* the positions of the current system state
CurrentPositions == states[Len(states)]

\* no particle has moved by more than half the skin margin since the last
\* rebuild: |displacement| <= (skin_radius - cutoff_radius) / 2
WithinHalfMargin ==
    \A p \in ParticleIds : 4 * Displacement2(p) <= Sq(SkinMargin)

\* particles i and j were farther apart than the cutoff at the last
\* rebuild and are now within the cutoff
CrossedIntoCutoff(i, j) ==
    /\ MinimumImageDistance2(PositionsOf(last_update)[i],
                             PositionsOf(last_update)[j], box_length)
         > Sq(cutoff_radius)
    /\ MinimumImageDistance2(CurrentPositions[i], CurrentPositions[j],
                             box_length) > 0
    /\ MinimumImageDistance2(CurrentPositions[i], CurrentPositions[j],
                             box_length) <= Sq(cutoff_radius)

\* C15: (on a grid of at least 3 subcells per row, with a positive skin
\* margin and all positions inside the box) while no particle has moved by
\* more than half the skin margin since the last rebuild, every pair that
\* has come within the cutoff is in the cache: each of the two particles is
\* listed under the other.
C15_NoPairEntersCutoffUndetected ==
    ( /\ Ready
      /\ subcells_inrow >= 3
      /\ SkinMargin > 0
      /\ \A p \in ParticleIds : /\ InBox(CurrentPositions[p], box_length)
                                /\ InBox(CachePositions[p], box_length)
      /\ WithinHalfMargin )
    => \A i, j \in ParticleIds :
         (i < j /\ CrossedIntoCutoff(i, j))
           => /\ Occurrences(neighbours_frame_IDs[i], j) > 0
              /\ Occurrences(neighbours_frame_IDs[j], i) > 0


\* the cache assembled in full from the index and the positions of the
\* instance.  No step changes start_index, neighbour_list or SystemState,
\* so the snapshot before a step and the snapshot after it are both this
\* one.
CompleteCache == create_neighbours_frame(Geo)

\* C14: (on a grid of at least 3 subcells per row with a positive skin
\* margin) a query for a particle id made at any point, between the
\* statements of a running step included, returns that particle's lists of
\* the complete previous or the complete new cache, never those of an
\* emptied or partly filled one.
C14_ReaderSeesCompleteSnapshot ==
    ( /\ Ready
      /\ subcells_inrow >= 3
      /\ SkinMargin > 0
      /\ result.op = "get_neighbours"
      /\ result.arg \in ParticleIds )
    => /\ result.outcome = "ok"
       /\ result.nb_ID = CompleteCache.IDs[result.arg]
       /\ result.nb_dist = CompleteCache.dist[result.arg]

=============================================================================
